---- MODULE Spec2Model ----
(***************************************************************************)
(* Model of the blocked-server matcher of src/src/server_block.rs.         *)
(*                                                                         *)
(* A Rust string is a sequence of one-character strings, so that           *)
(* str::split, slice::join, format!, str::parse::<u8> and to_lowercase are *)
(* computed character by character as the library computes them.           *)
(***************************************************************************)
EXTENDS Integers, Sequences, FiniteSets, TLC

\* ------------------------------------------------------------------ bounds

\* Largest number of dot-separated segments of a queried address.
MaxSegments == 4

\* Largest number of entries of the hash list of a matcher.
MaxHashes == 2

\* Number of callers that share one matcher.
NumCallers == 2

\* Largest number of segments handed to is_ipv4 when it is called directly.
MaxParts == 4

\* ----------------------------------------------------------------- strings

Digits == <<"0", "1", "2", "3", "4", "5", "6", "7", "8", "9">>

IsDigit(ch) == \E k \in 1..10 : Digits[k] = ch

\* char::to_digit(10) of a character that is a digit.
DigitValue(ch) == (CHOOSE k \in 1..10 : Digits[k] = ch) - 1

\* The byte of each character of the model's alphabet (ASCII, which is
\* what str::as_bytes yields for these characters).
AsciiByte(ch) ==
    CASE ch = " " -> 32
      [] ch = "*" -> 42
      [] ch = "+" -> 43
      [] ch = "-" -> 45
      [] ch = "." -> 46
      [] IsDigit(ch) -> 48 + DigitValue(ch)
      [] ch = "a" -> 97
      [] ch = "b" -> 98
      [] ch = "c" -> 99
      [] ch = "m" -> 109
      [] OTHER -> 63

as_bytes(s) == [k \in 1..Len(s) |-> AsciiByte(s[k])]

RECURSIVE SplitFrom(_, _, _)
\* Scans s left to right; cur is the segment being collected.
SplitFrom(s, cur, acc) ==
    IF s = <<>> THEN Append(acc, cur)
    ELSE IF Head(s) = "." THEN SplitFrom(Tail(s), <<>>, Append(acc, cur))
    ELSE SplitFrom(Tail(s), Append(cur, Head(s)), acc)

\* address.split('.').collect(): always at least one segment; the empty
\* string splits into one empty segment.
Split(s) == SplitFrom(s, <<>>, <<>>)

RECURSIVE Join(_, _)
\* [..].join(sep): the segments with sep between them; "" for no segment.
Join(segs, sep) ==
    IF segs = <<>> THEN <<>>
    ELSE IF Len(segs) = 1 THEN segs[1]
    ELSE segs[1] \o sep \o Join(Tail(segs), sep)

\* ----------------------------------------------------------------- is_ipv4

ParseOk(n) == [ok |-> TRUE, val |-> n, kind |-> "none"]

ParseErr(k) == [ok |-> FALSE, val |-> 0, kind |-> k]

RECURSIVE ParseDigits_Wrapping(_, _)
\* Mutant: the digit loop with wrapping instead of checked arithmetic.
ParseDigits_Wrapping(digits, acc) ==
    IF digits = <<>> THEN ParseOk(acc)
    ELSE IF ~IsDigit(Head(digits)) THEN ParseErr("InvalidDigit")
    ELSE ParseDigits_Wrapping(Tail(digits), (acc * 10 + DigitValue(Head(digits))) % 256)

RECURSIVE ParseDigits(_, _)
\* The digit loop of u8::from_str_radix(_, 10): checked_mul and checked_add
\* report PosOverflow once the value leaves 0..255.
ParseDigits(digits, acc) ==
    IF digits = <<>> THEN ParseOk(acc)
    ELSE IF ~IsDigit(Head(digits)) THEN ParseErr("InvalidDigit")
    ELSE IF acc * 10 > 255 THEN ParseErr("PosOverflow")
    ELSE IF acc * 10 + DigitValue(Head(digits)) > 255 THEN ParseErr("PosOverflow")
    ELSE ParseDigits(Tail(digits), acc * 10 + DigitValue(Head(digits)))

\* x.parse::<u8>(): the empty string is an error, a lone sign is an error,
\* one leading '+' is skipped, a leading '-' is kept for an unsigned type
\* and then is no digit.
ParseU8(x) ==
    IF x = <<>> THEN ParseErr("Empty")
    ELSE IF Len(x) = 1 /\ (x[1] = "+" \/ x[1] = "-") THEN ParseErr("InvalidDigit")
    ELSE IF x[1] = "+" THEN ParseDigits(Tail(x), 0)
    ELSE ParseDigits(x, 0)

is_ipv4(ip) == Len(ip) = 4 /\ \A k \in 1..Len(ip) : ParseU8(ip[k]).ok

\* -------------------------------------------------------- is_pattern_blocked

RECURSIVE DigestFold(_, _)
DigestFold(bytes, h) ==
    IF bytes = <<>> THEN h
    ELSE DigestFold(Tail(bytes), (h * 31 + Head(bytes)) % 251)

\* Sha1::digest(bytes) is the sha1 crate's; it is abstracted to a
\* deterministic digest of one byte with four values (AA, 3B, C4, 0D), so
\* that candidates and list entries meet within the bounds.
Sha1Digest(bytes) == << <<170, 59, 196, 13>>[(DigestFold(bytes, 7) % 4) + 1] >>

UPPER_CHARS ==
    <<"0", "1", "2", "3", "4", "5", "6", "7", "8", "9", "A", "B", "C", "D", "E", "F">>

RECURSIVE UpperHex(_)
\* format!("{:X}", digest): two upper-case hex digits per byte, high nibble
\* first; the '#', '0' and width flags do not change a byte array's output.
UpperHex(bytes) ==
    IF bytes = <<>> THEN <<>>
    ELSE <<UPPER_CHARS[(Head(bytes) \div 16) + 1], UPPER_CHARS[(Head(bytes) % 16) + 1]>>
         \o UpperHex(Tail(bytes))

LowerChar(ch) ==
    CASE ch = "A" -> "a"
      [] ch = "B" -> "b"
      [] ch = "C" -> "c"
      [] ch = "D" -> "d"
      [] ch = "E" -> "e"
      [] ch = "F" -> "f"
      [] OTHER -> ch

to_lowercase(s) == [k \in 1..Len(s) |-> LowerChar(s[k])]

\* Vec::contains: some entry equals the string exactly.
Contains(list, s) == \E k \in 1..Len(list) : list[k] = s

\* Mutant: the digest is left in the upper case format! produces.
PatternHash_Upper(pattern) == UpperHex(Sha1Digest(as_bytes(pattern)))

PatternHash(pattern) == to_lowercase(UpperHex(Sha1Digest(as_bytes(pattern))))

\* Mutant: the entries are lower-cased too before they are compared.
is_pattern_blocked_ignore_case(list, pattern) ==
    \E k \in 1..Len(list) :
        to_lowercase(list[k]) = to_lowercase(UpperHex(Sha1Digest(as_bytes(pattern))))

is_pattern_blocked(list, pattern) == Contains(list, PatternHash(pattern))

\* -------------------------------------------------------------------- state

VARIABLES
    hashes,         \* BlockedServers.hashes, the Vec<String> of the matcher
    pc,             \* per caller: where its query stands
    op,             \* per caller: the method it called
    address,        \* per caller: the address argument
    address_parts,  \* per caller: address.split('.').collect()
    range,          \* per caller: the Range 1..address_parts.len() being iterated
    idx,            \* per caller: the last index i used to slice address_parts
    tried,          \* per caller: the patterns handed to is_pattern_blocked so far
    found,          \* per caller: the Option returned by find_blocked_pattern
    blocked,        \* per caller: the bool returned by is_blocked
    ip,             \* the argument of a direct is_ipv4 call
    ipv4_ret        \* the outcome of that call

vars ==
    <<hashes, pc, op, address, address_parts, range, idx, tried, found, blocked,
      ip, ipv4_ret>>

matcher_vars ==
    <<hashes, pc, op, address, address_parts, range, idx, tried, found, blocked>>

Callers == 1..NumCallers

None == [some |-> FALSE, val |-> <<>>]

Some(s) == [some |-> TRUE, val |-> s]

\* Sequences over S of n to m elements.
SeqsOf(S, n, m) == UNION {[1..k -> S] : k \in n..m}

\* Segments the queried addresses are built from: empty, numeric, a label.
AddressSegments == {<<>>, <<"1">>, <<"a">>}

\* Segments of the dotted quads: two octets and a number that is no octet.
QuadSegments == {<<"1">>, <<"2", "0">>, <<"3", "0", "0">>}

\* Every string is the join of its segments, so the first set is all the
\* strings of at most MaxSegments segments over AddressSegments; the second
\* adds the addresses of four numeric segments.
Addresses ==
    {Join(p, <<".">>) : p \in SeqsOf(AddressSegments, 1, MaxSegments)}
        \cup {Join(p, <<".">>) : p \in SeqsOf(QuadSegments, 4, 4)}

\* Entries a hash list is built from: two lower-case digests, one of them
\* again in upper case, and an entry that is no hex string.
HashEntries == {<<"0", "d">>, <<"3", "b">>, <<"3", "B">>, <<"z", "z">>}

HashLists == SeqsOf(HashEntries, 0, MaxHashes)

\* Inputs of the runs with several callers.
SharedAddresses ==
    {<<>>, <<"a">>, <<"a", ".", "a">>, <<"2", "0", ".", "a", ".", "1">>,
     <<"2", "0", ".", "1", ".", "2", "0", ".", "1">>,
     <<"1", ".", "2", "0", ".", "1", ".", "1">>}

SharedHashLists == {<<>>, <<<<"0", "d">>>>, <<<<"3", "B">>, <<"3", "b">>>>}

\* Segments handed to is_ipv4 directly.
Ipv4Segments ==
    {<<>>, <<"0">>, <<"2", "5", "5">>, <<"2", "5", "6">>, <<"0", "0", "7">>,
     <<"+", "1">>, <<"-", "1">>, <<"1", "a">>, <<" ", "1">>, <<"+">>}

Ops == {"find_blocked_pattern", "is_blocked"}

Idle ==
    /\ pc = [c \in Callers |-> "idle"]
    /\ op = [c \in Callers |-> "none"]
    /\ address = [c \in Callers |-> <<>>]
    /\ address_parts = [c \in Callers |-> <<>>]
    /\ range = [c \in Callers |-> [start |-> 0, end |-> 0]]
    /\ idx = [c \in Callers |-> 0]
    /\ tried = [c \in Callers |-> <<>>]
    /\ found = [c \in Callers |-> None]
    /\ blocked = [c \in Callers |-> FALSE]

\* A matcher built from a hash list (the struct literal of the doc test, or
\* BlockedServers::new from the fetched lines); no query has started.
Init ==
    /\ hashes \in HashLists
    /\ Idle
    /\ ip = <<>>
    /\ ipv4_ret = "unset"

InitShared ==
    /\ hashes \in SharedHashLists
    /\ Idle
    /\ ip = <<>>
    /\ ipv4_ret = "unset"

InitIpv4 ==
    /\ hashes = <<>>
    /\ Idle
    /\ ip \in SeqsOf(Ipv4Segments, 0, MaxParts)
    /\ ipv4_ret = "unset"

\* ------------------------------------------------------------------ actions

\* A caller enters find_blocked_pattern(a), directly or through is_blocked,
\* and splits the address.
Call(c, o, a) ==
    /\ pc[c] = "idle"
    /\ pc' = [pc EXCEPT ![c] = "exact"]
    /\ op' = [op EXCEPT ![c] = o]
    /\ address' = [address EXCEPT ![c] = a]
    /\ address_parts' = [address_parts EXCEPT ![c] = Split(a)]
    /\ UNCHANGED <<hashes, range, idx, tried, found, blocked, ip, ipv4_ret>>

\* The wildcard branch is entered with the range rng.
EnterWildcards(c, rng) ==
    /\ range' = [range EXCEPT ![c] = rng]
    /\ pc' = [pc EXCEPT ![c] = IF is_ipv4(address_parts[c]) THEN "ipv4" ELSE "host"]
    /\ UNCHANGED found

\* Mutant: the exact test is left out.
CheckExact_NoExactTest(c) ==
    /\ pc[c] = "exact"
    /\ tried' = [tried EXCEPT ![c] = <<address[c]>>]
    /\ EnterWildcards(c, [start |-> 1, end |-> Len(address_parts[c])])
    /\ UNCHANGED <<hashes, op, address, address_parts, idx, blocked, ip, ipv4_ret>>

\* Mutant: the wildcard range is 0..len.
CheckExact_RangeFromZero(c) ==
    /\ pc[c] = "exact"
    /\ tried' = [tried EXCEPT ![c] = <<address[c]>>]
    /\ IF is_pattern_blocked(hashes, address[c])
       THEN /\ found' = [found EXCEPT ![c] = Some(address[c])]
            /\ pc' = [pc EXCEPT ![c] = "return"]
            /\ UNCHANGED range
       ELSE EnterWildcards(c, [start |-> 0, end |-> Len(address_parts[c])])
    /\ UNCHANGED <<hashes, op, address, address_parts, idx, blocked, ip, ipv4_ret>>

\* Mutant: the wildcard range is 1..len + 2.
CheckExact_RangePastEnd(c) ==
    /\ pc[c] = "exact"
    /\ tried' = [tried EXCEPT ![c] = <<address[c]>>]
    /\ IF is_pattern_blocked(hashes, address[c])
       THEN /\ found' = [found EXCEPT ![c] = Some(address[c])]
            /\ pc' = [pc EXCEPT ![c] = "return"]
            /\ UNCHANGED range
       ELSE EnterWildcards(c, [start |-> 1, end |-> Len(address_parts[c]) + 2])
    /\ UNCHANGED <<hashes, op, address, address_parts, idx, blocked, ip, ipv4_ret>>

\* Mutant: the query lower-cases the stored list in place before testing.
CheckExact_NormalizesList(c) ==
    /\ pc[c] = "exact"
    /\ hashes' = [k \in 1..Len(hashes) |-> to_lowercase(hashes[k])]
    /\ tried' = [tried EXCEPT ![c] = <<address[c]>>]
    /\ IF is_pattern_blocked(hashes', address[c])
       THEN /\ found' = [found EXCEPT ![c] = Some(address[c])]
            /\ pc' = [pc EXCEPT ![c] = "return"]
            /\ UNCHANGED range
       ELSE EnterWildcards(c, [start |-> 1, end |-> Len(address_parts[c])])
    /\ UNCHANGED <<op, address, address_parts, idx, blocked, ip, ipv4_ret>>

\* The exact test, then the choice of the wildcard branch with its range
\* 1..address_parts.len().
CheckExact(c) ==
    /\ pc[c] = "exact"
    /\ tried' = [tried EXCEPT ![c] = <<address[c]>>]
    /\ IF is_pattern_blocked(hashes, address[c])
       THEN /\ found' = [found EXCEPT ![c] = Some(address[c])]
            /\ pc' = [pc EXCEPT ![c] = "return"]
            /\ UNCHANGED range
       ELSE EnterWildcards(c, [start |-> 1, end |-> Len(address_parts[c])])
    /\ UNCHANGED <<hashes, op, address, address_parts, idx, blocked, ip, ipv4_ret>>

\* One pull of find over map(closure) over the range: the closure slices
\* address_parts at i (a slice index outside 0..len panics) and the pattern
\* it builds is tested.
TryPattern(c, i, pattern, rng) ==
    /\ idx' = [idx EXCEPT ![c] = i]
    /\ range' = [range EXCEPT ![c] = rng]
    /\ IF i < 0 \/ i > Len(address_parts[c])
       THEN /\ pc' = [pc EXCEPT ![c] = "panic"]
            /\ UNCHANGED <<tried, found>>
       ELSE /\ tried' = [tried EXCEPT ![c] = Append(@, pattern)]
            /\ IF is_pattern_blocked(hashes, pattern)
               THEN /\ found' = [found EXCEPT ![c] = Some(pattern)]
                    /\ pc' = [pc EXCEPT ![c] = "return"]
               ELSE UNCHANGED <<found, pc>>

\* The iterator is exhausted: find returns None.
Exhausted(c) ==
    /\ found' = [found EXCEPT ![c] = None]
    /\ pc' = [pc EXCEPT ![c] = "return"]
    /\ UNCHANGED <<range, idx, tried>>

Ipv4Pattern(parts, i) == Join(SubSeq(parts, 1, i), <<".">>) \o <<".", "*">>

\* Mutant: the slice starts one segment early.
HostPattern_KeepsLabel(parts, i) == <<"*", ".">> \o Join(SubSeq(parts, i, Len(parts)), <<".">>)

HostPattern(parts, i) == <<"*", ".">> \o Join(SubSeq(parts, i + 1, Len(parts)), <<".">>)

\* Mutant: the range is walked forwards, shortest prefix first.
StepIpv4_Ascending(c) ==
    /\ pc[c] = "ipv4"
    /\ IF range[c].start < range[c].end
       THEN TryPattern(c, range[c].start,
                       Ipv4Pattern(address_parts[c], range[c].start),
                       [range[c] EXCEPT !.start = @ + 1])
       ELSE Exhausted(c)
    /\ UNCHANGED <<hashes, op, address, address_parts, blocked, ip, ipv4_ret>>

\* (1..len).rev(): next_back yields end - 1 while start < end.
StepIpv4(c) ==
    /\ pc[c] = "ipv4"
    /\ IF range[c].start < range[c].end
       THEN TryPattern(c, range[c].end - 1,
                       Ipv4Pattern(address_parts[c], range[c].end - 1),
                       [range[c] EXCEPT !.end = @ - 1])
       ELSE Exhausted(c)
    /\ UNCHANGED <<hashes, op, address, address_parts, blocked, ip, ipv4_ret>>

\* (1..len): next yields start while start < end.
StepHost(c) ==
    /\ pc[c] = "host"
    /\ IF range[c].start < range[c].end
       THEN TryPattern(c, range[c].start,
                       HostPattern(address_parts[c], range[c].start),
                       [range[c] EXCEPT !.start = @ + 1])
       ELSE Exhausted(c)
    /\ UNCHANGED <<hashes, op, address, address_parts, blocked, ip, ipv4_ret>>

\* Mutant: is_blocked has logic of its own and counts exact matches only.
Return_ExactOnly(c) ==
    /\ pc[c] = "return"
    /\ pc' = [pc EXCEPT ![c] = "done"]
    /\ blocked' = [blocked EXCEPT ![c] =
                      IF op[c] = "is_blocked" THEN found[c] = Some(address[c]) ELSE @]
    /\ UNCHANGED <<hashes, op, address, address_parts, range, idx, tried, found, ip, ipv4_ret>>

\* find_blocked_pattern returns; is_blocked returns is_some() of it.
Return(c) ==
    /\ pc[c] = "return"
    /\ pc' = [pc EXCEPT ![c] = "done"]
    /\ blocked' = [blocked EXCEPT ![c] = IF op[c] = "is_blocked" THEN found[c].some ELSE @]
    /\ UNCHANGED <<hashes, op, address, address_parts, range, idx, tried, found, ip, ipv4_ret>>

\* The caller drops the result and may query again.
Release(c) ==
    /\ pc[c] = "done"
    /\ pc' = [pc EXCEPT ![c] = "idle"]
    /\ op' = [op EXCEPT ![c] = "none"]
    /\ address' = [address EXCEPT ![c] = <<>>]
    /\ address_parts' = [address_parts EXCEPT ![c] = <<>>]
    /\ range' = [range EXCEPT ![c] = [start |-> 0, end |-> 0]]
    /\ idx' = [idx EXCEPT ![c] = 0]
    /\ tried' = [tried EXCEPT ![c] = <<>>]
    /\ found' = [found EXCEPT ![c] = None]
    /\ blocked' = [blocked EXCEPT ![c] = FALSE]
    /\ UNCHANGED <<hashes, ip, ipv4_ret>>

\* A direct call of the public function is_ipv4.
CallIsIpv4 ==
    /\ ipv4_ret = "unset"
    /\ ipv4_ret' = IF is_ipv4(ip) THEN "true" ELSE "false"
    /\ UNCHANGED <<matcher_vars, ip>>

Step(c) == CheckExact(c) \/ StepIpv4(c) \/ StepHost(c) \/ Return(c)

\* One caller, every address of the bounds.
Next ==
    \/ \E o \in Ops, a \in Addresses : Call(1, o, a)
    \/ CheckExact(1)
    \/ StepIpv4(1)
    \/ StepHost(1)
    \/ Return(1)
    \/ Release(1)

Spec == Init /\ [][Next]_vars

\* Several callers sharing the matcher, their steps interleaved.
NextShared ==
    \E c \in Callers :
        \/ \E o \in Ops, a \in SharedAddresses : Call(c, o, a)
        \/ CheckExact(c)
        \/ StepIpv4(c)
        \/ StepHost(c)
        \/ Return(c)
        \/ Release(c)

SpecShared == InitShared /\ [][NextShared]_vars

NextIpv4 == CallIsIpv4

SpecIpv4 == InitIpv4 /\ [][NextIpv4]_vars

\* ------------------------------------------------- vocabulary of the claims

LOWER_HEX ==
    <<"0", "1", "2", "3", "4", "5", "6", "7", "8", "9", "a", "b", "c", "d", "e", "f">>

\* The lower-case hex digest of a pattern, rendered directly.
DigestHex(p) ==
    LET d == Sha1Digest(as_bytes(p))
    IN  [k \in 1..(2 * Len(d)) |->
            IF k % 2 = 1 THEN LOWER_HEX[(d[(k + 1) \div 2] \div 16) + 1]
            ELSE LOWER_HEX[(d[k \div 2] % 16) + 1]]

\* The digest of p is an element of the list.
InList(list, p) == \E k \in 1..Len(list) : list[k] = DigestHex(p)

Dot(x, y) == x \o <<".">> \o y

\* "a.b.c.*", "a.b.*", "a.*" of the segments a, b, c, d.
PrefixCandidates(p) ==
    << Dot(Dot(Dot(p[1], p[2]), p[3]), <<"*">>),
       Dot(Dot(p[1], p[2]), <<"*">>),
       Dot(p[1], <<"*">>) >>

RECURSIVE DotAll(_)
DotAll(p) == IF Len(p) = 1 THEN p[1] ELSE Dot(p[1], DotAll(Tail(p)))

\* "*." + segments i..n (counted from 0) for i = 1 .. n-1.
SuffixCandidates(p) ==
    [i \in 1..(Len(p) - 1) |-> <<"*", ".">> \o DotAll([k \in 1..(Len(p) - i) |-> p[i + k]])]

\* Position of the first candidate whose digest is in the list, 0 if none.
FirstHit(list, cands) ==
    IF \E k \in 1..Len(cands) : InList(list, cands[k])
    THEN CHOOSE k \in 1..Len(cands) :
            /\ InList(list, cands[k])
            /\ \A j \in 1..(k - 1) : ~InList(list, cands[j])
    ELSE 0

\* What a search of the candidates tries and what it reports.
TriedOf(list, cands) ==
    IF FirstHit(list, cands) = 0 THEN cands ELSE SubSeq(cands, 1, FirstHit(list, cands))

ResultOf(list, cands) ==
    IF FirstHit(list, cands) = 0 THEN None ELSE Some(cands[FirstHit(list, cands)])

IsPrefix(s, t) == Len(s) <= Len(t) /\ SubSeq(t, 1, Len(s)) = s

Finished(c) == pc[c] = "done"

Running(c) == pc[c] \in {"exact", "ipv4", "host", "return"}

Started(c) == pc[c] \in {"ipv4", "host", "return", "done"}

\* The candidates of an address as the specification lists them.
CandidatesOf(a) ==
    <<a>> \o (IF is_ipv4(Split(a)) THEN PrefixCandidates(Split(a))
              ELSE SuffixCandidates(Split(a)))

ExpectedFound(list, a) == ResultOf(list, CandidatesOf(a))

\* ------------------------------------------------------------------- claims

\* C1: when the digest of the address itself is in the list, the query
\* returns Some(address) unchanged, after trying the address alone, whatever
\* the shape of the address and whatever wildcard candidate is in the list.
C1_ExactMatchFirst ==
    \A c \in Callers :
        (Finished(c) /\ InList(hashes, address[c]))
            => /\ found[c] = Some(address[c])
               /\ tried[c] = <<address[c]>>

\* An IPv4 address matched exactly although one of its wildcards is listed.
C1_Witness ==
    \E c \in Callers :
        /\ Finished(c)
        /\ is_ipv4(address_parts[c])
        /\ InList(hashes, address[c])
        /\ \E k \in 1..3 : InList(hashes, PrefixCandidates(address_parts[c])[k])
        /\ found[c] = Some(address[c])

\* C2: for an address classified as IPv4 whose own digest is not in the
\* list, the candidates tried after the address are "a.b.c.*", "a.b.*",
\* "a.*" in that order, up to the first whose digest is in the list; that
\* one is returned, None if there is none.
C2_Ipv4PrefixOrder ==
    \A c \in Callers :
        (Started(c) /\ is_ipv4(address_parts[c]) /\ ~InList(hashes, address[c]))
            => LET cands == PrefixCandidates(address_parts[c])
               IN  /\ IsPrefix(tried[c], <<address[c]>> \o TriedOf(hashes, cands))
                   /\ Finished(c) =>
                        /\ tried[c] = <<address[c]>> \o TriedOf(hashes, cands)
                        /\ found[c] = ResultOf(hashes, cands)

\* Both "a.b.c.*" and "a.b.*" are listed and the longer one is returned.
C2_Witness ==
    \E c \in Callers :
        /\ Finished(c)
        /\ is_ipv4(address_parts[c])
        /\ ~InList(hashes, address[c])
        /\ InList(hashes, PrefixCandidates(address_parts[c])[1])
        /\ InList(hashes, PrefixCandidates(address_parts[c])[2])
        /\ PrefixCandidates(address_parts[c])[1] # PrefixCandidates(address_parts[c])[2]
        /\ found[c] = Some(PrefixCandidates(address_parts[c])[1])

\* C3: for an address not classified as IPv4 whose own digest is not in the
\* list, the candidates tried after the address are "*." + segments i..n
\* for i = 1, 2, ..., n-1 in that order, up to the first whose digest is in
\* the list; that one is returned, None if there is none.
C3_HostSuffixOrder ==
    \A c \in Callers :
        (Started(c) /\ ~is_ipv4(address_parts[c]) /\ ~InList(hashes, address[c]))
            => LET cands == SuffixCandidates(address_parts[c])
               IN  /\ IsPrefix(tried[c], <<address[c]>> \o TriedOf(hashes, cands))
                   /\ Finished(c) =>
                        /\ tried[c] = <<address[c]>> \o TriedOf(hashes, cands)
                        /\ found[c] = ResultOf(hashes, cands)

\* A hostname whose first suffix is not listed and whose second is, with a
\* third, shorter one listed too.
C3_Witness ==
    \E c \in Callers :
        /\ Finished(c)
        /\ ~is_ipv4(address_parts[c])
        /\ Len(address_parts[c]) = 4
        /\ ~InList(hashes, address[c])
        /\ ~InList(hashes, SuffixCandidates(address_parts[c])[1])
        /\ InList(hashes, SuffixCandidates(address_parts[c])[2])
        /\ InList(hashes, SuffixCandidates(address_parts[c])[3])
        /\ found[c] = Some(SuffixCandidates(address_parts[c])[2])

\* C10: a pattern is reported only when its lower-case hex digest is an
\* element of the list; with an empty list nothing is reported and
\* is_blocked is false.
C10_OnlyListedDigests ==
    \A c \in Callers :
        /\ found[c].some => InList(hashes, found[c].val)
        /\ hashes = <<>> => (~found[c].some /\ ~blocked[c])

\* A wildcard reported from a list that also holds an upper-case entry.
C10_Witness ==
    \E c \in Callers :
        /\ Finished(c)
        /\ found[c].some
        /\ found[c].val # address[c]
        /\ Contains(hashes, <<"3", "B">>)

RECURSIVE NumeralValue(_)
\* The number a string of digits denotes.
NumeralValue(x) ==
    IF x = <<>> THEN 0
    ELSE 10 * NumeralValue(SubSeq(x, 1, Len(x) - 1)) + DigitValue(x[Len(x)])

\* A decimal numeral of 0..255: one or more digits and nothing else.
IsOctetNumeral(x) ==
    /\ x # <<>>
    /\ \A k \in 1..Len(x) : IsDigit(x[k])
    /\ NumeralValue(x) <= 255

\* The same, with one '+' sign allowed in front.
IsSignedOctetNumeral(x) ==
    \/ IsOctetNumeral(x)
    \/ (x # <<>> /\ x[1] = "+" /\ IsOctetNumeral(Tail(x)))

\* C4 as stated: is_ipv4 is true exactly for four segments that are each a
\* decimal numeral of 0..255.
C4_Original ==
    ipv4_ret # "unset"
        => ((ipv4_ret = "true") <=> (Len(ip) = 4 /\ \A k \in 1..Len(ip) : IsOctetNumeral(ip[k])))

\* C4 amended: is_ipv4 is true exactly for four segments that are each a
\* decimal numeral of 0..255 optionally preceded by a single '+'.
C4_Amended ==
    ipv4_ret # "unset"
        => ((ipv4_ret = "true")
                <=> (Len(ip) = 4 /\ \A k \in 1..Len(ip) : IsSignedOctetNumeral(ip[k])))

\* Four segments with a signed one and one with leading zeros are IPv4.
C4_Witness ==
    /\ ipv4_ret = "true"
    /\ \E k \in 1..Len(ip) : ip[k] = <<"+", "1">>
    /\ \E k \in 1..Len(ip) : ip[k] = <<"0", "0", "7">>

HasUpper(e) == \E k \in 1..Len(e) : LowerChar(e[k]) # e[k]

IsLowerEntry(e) == ~HasUpper(e)

\* C5 as stated: an entry that equals the digest of the address up to
\* letter case makes the address match.
C5_Original ==
    \A c \in Callers :
        (Finished(c) /\ \E k \in 1..Len(hashes) : to_lowercase(hashes[k]) = DigestHex(address[c]))
            => found[c] = Some(address[c])

\* C5 amended: only the computed digest is lower-cased; the entries are
\* compared as stored, so an entry with an upper-case hex digit matches
\* nothing and every query returns what it returns on the list without
\* such entries.
C5_Amended ==
    \A c \in Callers :
        Finished(c) => found[c] = ExpectedFound(SelectSeq(hashes, IsLowerEntry), address[c])

\* The list holds the digest of the address in upper case only, and the
\* query reports no match.
C5_Witness ==
    \E c \in Callers :
        /\ Finished(c)
        /\ \E k \in 1..Len(hashes) :
              HasUpper(hashes[k]) /\ to_lowercase(hashes[k]) = DigestHex(address[c])
        /\ found[c] = None

\* C6: is_blocked(A) is true exactly when find_blocked_pattern(A) returns
\* Some pattern, for its own inner call and for any other caller's query of
\* the same address on the same matcher.
C6_IsBlockedIsProjection ==
    \A c \in Callers :
        (Finished(c) /\ op[c] = "is_blocked")
            => /\ blocked[c] = found[c].some
               /\ \A d \in Callers :
                    (Finished(d) /\ op[d] = "find_blocked_pattern" /\ address[d] = address[c])
                        => blocked[c] = found[d].some

\* One caller got true from is_blocked for a wildcard match and another got
\* the pattern from find_blocked_pattern.
C6_Witness ==
    \E c, d \in Callers :
        /\ Finished(c) /\ op[c] = "is_blocked"
        /\ Finished(d) /\ op[d] = "find_blocked_pattern"
        /\ address[c] = address[d]
        /\ blocked[c]
        /\ found[d].some /\ found[d].val # address[d]

\* C7 as stated: an address of one segment (the empty string included)
\* returns None and is not blocked, whatever the list.
C7_Original ==
    \A c \in Callers :
        (Finished(c) /\ Len(address_parts[c]) = 1)
            => (found[c] = None /\ ~blocked[c])

\* C7 amended: for an address of one segment only the address itself is
\* tried, no wildcard; the query returns Some(address) when the digest of
\* the address is in the list and None otherwise, and is_blocked agrees.
C7_Amended ==
    \A c \in Callers :
        (Finished(c) /\ Len(address_parts[c]) = 1)
            => /\ tried[c] = <<address[c]>>
               /\ found[c] = IF InList(hashes, address[c]) THEN Some(address[c]) ELSE None
               /\ op[c] = "is_blocked" => (blocked[c] <=> InList(hashes, address[c]))

\* The empty address queried on a non-empty list: no match.
C7_Witness ==
    \E c \in Callers :
        /\ Finished(c)
        /\ address[c] = <<>>
        /\ hashes # <<>>
        /\ op[c] = "is_blocked"
        /\ found[c] = None /\ ~blocked[c]

\* Steps a query has left at most: the exact test, one per index left in
\* the range, the end of the search, the return.
StepsLeft(c) ==
    CASE pc[c] = "exact" -> Len(address_parts[c]) + 2
      [] pc[c] \in {"ipv4", "host"} -> (range[c].end - range[c].start) + 2
      [] pc[c] = "return" -> 1
      [] OTHER -> 0

\* C8: a query never fails: no panic is reached, no slice index leaves
\* 0..segment_count, a query tests at most segment_count patterns, every
\* step of a query brings it nearer to its return, and it ends with Some
\* pattern or None.
C8_Total ==
    /\ [](\A c \in Callers :
            /\ pc[c] \in {"idle", "exact", "ipv4", "host", "return", "done"}
            /\ idx[c] \in 0..Len(address_parts[c])
            /\ Len(tried[c]) <= Len(address_parts[c])
            /\ StepsLeft(c) >= 0
            /\ Finished(c) => (found[c] = None \/ found[c] = Some(found[c].val)))
    /\ [][\A c \in Callers :
            (Running(c) /\ <<pc[c], range[c], tried[c]>>' # <<pc[c], range[c], tried[c]>>)
                => StepsLeft(c)' < StepsLeft(c)]_vars

\* An address with a leading dot, two dots in a row and a trailing dot was
\* answered on a list with an entry that is no digest.
C8_Witness ==
    \E c \in Callers :
        /\ Finished(c)
        /\ address[c] = <<".", "a", ".", ".">>
        /\ Contains(hashes, <<"z", "z">>)
        /\ found[c].some

\* C9: no step of any caller's query changes the hash list, and every
\* finished query holds the result of the search of its own candidates on
\* that list, whatever the other callers did meanwhile.
C9_QueriesDoNotMutate ==
    /\ [][hashes' = hashes]_vars
    /\ [](\A c \in Callers :
            Finished(c) =>
                /\ found[c] = ExpectedFound(hashes, address[c])
                /\ op[c] = "is_blocked" => blocked[c] = ExpectedFound(hashes, address[c]).some)

\* Two callers are in the middle of their wildcard loops at once, one in
\* the IPv4 branch and one in the hostname branch, on a non-empty list.
C9_Witness ==
    \E c, d \in Callers :
        /\ c # d
        /\ pc[c] = "host" /\ Len(tried[c]) = 2
        /\ pc[d] = "ipv4" /\ Len(tried[d]) = 2
        /\ hashes # <<>>

====
